---------------------------- MODULE Spec2Model ----------------------------
(***************************************************************************)
(* Model of main.py (Atlas.AI API): module start-up, POST /consulta-atlas  *)
(* and POST /ask with its server-sent-event generator, run on the single   *)
(* thread of the asyncio event loop.                                       *)
(*                                                                         *)
(* Text is a sequence of characters over Chars, where "L" stands for the   *)
(* opening bracket U+3010, "R" for the closing bracket U+3011, "n" for a   *)
(* line break and "x" for any other character.                             *)
(***************************************************************************)
EXTENDS Integers, Sequences, FiniteSets, TLC

\* ------------------------------------------------------------------ bounds
\* Longest delta text tried by the cleaning specification.
MaxLen == 4
\* Most upstream events delivered to the server, all streams together.
MaxEvents == 2

\* ------------------------------------------------------------- vocabulary
Requests == {"A", "B"}
None == "<None>"
Chars == {"L", "R", "x", "n"}

Last(s) == s[Len(s)]

RECURSIVE SeqsUpTo(_)
SeqsUpTo(k) ==
  IF k = 0 THEN {<<>>}
  ELSE LET S == SeqsUpTo(k - 1)
       IN  S \cup {Append(s, c) : s \in {t \in S : Len(t) = k - 1}, c \in Chars}

\* --------------------------------------------------------- re.sub, json
\* The end of the match of the pattern at position i: "L", then as few
\* characters as possible none of which is a line break, then "R".
\* 0 when the pattern does not match at i.
MatchEnd(s, i) ==
  LET ends == {q \in (i + 1)..Len(s) :
                 /\ s[q] = "R"
                 /\ \A k \in (i + 1)..(q - 1) : s[k] # "n"}
  IN  IF i <= Len(s) /\ s[i] = "L" /\ ends # {}
      THEN CHOOSE q \in ends : \A q2 \in ends : q <= q2
      ELSE 0

RECURSIVE SubFrom(_, _)
SubFrom(s, p) ==
  IF p > Len(s) THEN <<>>
  ELSE IF MatchEnd(s, p) # 0 THEN SubFrom(s, MatchEnd(s, p) + 1)
  ELSE <<s[p]>> \o SubFrom(s, p + 1)

\* re.sub(pattern, '', s): the leftmost non-overlapping matches removed.
re_sub(s) == SubFrom(s, 1)

\* json.loads of a tool call's arguments: the parsed object, or JsonError
\* where the text is no JSON document.
ArgsProjects == "{\"section\": \"projects\"}"
ArgsBroken == "{\"section\": "
JsonError == [error |-> "JSONDecodeError"]
json_loads(text) ==
  IF text = ArgsProjects THEN [section |-> "projects"] ELSE JsonError

\* json.dumps({"success": True})
SuccessAck == "{\"success\": true}"

\* ---------------------------------------------------- upstream vocabulary
\* Delta texts the upstream run delivers in the server model.
DeltaTexts == {<<"x", "L", "x", "R">>, <<"L", "x", "R">>}

ToolCall(id, name, arguments) ==
  [id |-> id, name |-> name, arguments |-> arguments]

ToolCallLists ==
  { <<ToolCall("call_1", "sendEmail", ArgsProjects)>>,
    <<ToolCall("call_1", "navigateToSection", ArgsProjects),
      ToolCall("call_2", "sendEmail", ArgsProjects)>>,
    <<ToolCall("call_1", "navigateToSection", ArgsBroken)>> }

Event(name, content, tool_calls) ==
  [event |-> name, content |-> content, id |-> "run_1",
   tool_calls |-> tool_calls]

NoEvent == Event("", <<>>, <<>>)

\* Events an upstream stream can deliver: text deltas (with a text, or with
\* an empty content list), a required action, any other event.
UpstreamEvents ==
  {Event("thread.message.delta", <<t>>, <<>>) : t \in DeltaTexts}
    \cup {Event("thread.message.delta", <<>>, <<>>)}
    \cup {Event("thread.run.requires_action", <<>>, tc) : tc \in ToolCallLists}
    \cup {Event("thread.run.step.created", <<>>, <<>>)}

\* Thread ids a caller can send: absent/null, the empty string, a handle.
ThreadIdInputs == {None, "", "thread_old"}
\* The id of the thread upstream creates for request r.
NewThreadId(r) == "thread_new_" \o r

\* An upstream network call: what was called, with which thread and (for a
\* tool-output submission) which run and outputs, and how it ended.
Call(op, thread, tool_outputs) ==
  [op |-> op, thread |-> thread, tool_outputs |-> tool_outputs,
   res |-> "pending"]

\* SSE payloads: json.dumps({"event": ..., "data": ...})
SseEvent(event, data) == [event |-> event, data |-> data]

\* ------------------------------------------------------------------ state
VARIABLES
  proc,         \* "booting", "serving", or "refused" (import raised)
  OPENAI_API_KEY, ASSISTANT_ID,   \* module globals: TRUE when a value is set
  equipe_data,  \* module global: "data" (non-empty) or "empty" ({})
  loop,         \* the request running on the event-loop thread, or "idle"
  req,          \* per request: the handler's and the generator's state
  text_chunk, cleaned, emitted, cl_pc   \* the cleaning specification

srv_vars == <<proc, OPENAI_API_KEY, ASSISTANT_ID, equipe_data, loop, req>>
cl_vars == <<text_chunk, cleaned, emitted, cl_pc>>
vars == <<srv_vars, cl_vars>>

\* A request that has not arrived.
NoRequest ==
  [ kind |-> "none",          \* "ask" or "atlas"
    thread_in |-> None,       \* req.thread_id as sent
    pc |-> "absent",
    thread_id |-> None,       \* the handler's local thread_id
    calls |-> <<>>,           \* upstream calls made so far, in order
    out |-> <<>>,             \* SSE events yielded so far, in order
    status |-> 0,             \* HTTP status of the response, 0: none yet
    body |-> "",              \* "answer+local-json" for /consulta-atlas
    streamOpen |-> FALSE,     \* inside `with ... runs.stream(...)`
    followOpen |-> FALSE,     \* inside `with ... submit_tool_outputs_stream`
    event |-> NoEvent,        \* loop variable of `for event in stream`
    part |-> NoEvent,         \* loop variable of `for part in follow_stream`
    tool_calls |-> <<>>,      \* locals of the requires_action branch
    tool_outputs |-> <<>>,
    idx |-> 0,                \* position of `for call in tool_calls`
    consumed |-> 0,           \* upstream events consumed so far
    disconnected |-> FALSE ]  \* the caller has gone away

\* The environment at start-up: whether .env sets each value, and what
\* equipe.json holds.
EnvChoices ==
  [ apiKey : BOOLEAN, assistantId : BOOLEAN,
    equipe : {"missing", "invalid", "empty", "ok"} ]

Init ==
  /\ proc = "booting"
  /\ OPENAI_API_KEY = FALSE
  /\ ASSISTANT_ID = FALSE
  /\ equipe_data = "empty"
  /\ loop = "idle"
  /\ req = [r \in Requests |-> NoRequest]
  /\ text_chunk = <<>> /\ cleaned = <<>> /\ emitted = <<>> /\ cl_pc = "off"

\* ---------------------------------------------------------------- start-up
\* equipe.json read and parsed; any failure leaves {}.
LoadEquipe(file) == IF file = "ok" THEN "data" ELSE "empty"

\* A mutant: the import never raises.
StartupRefusesNever(e) == FALSE

\* The import-time check: which missing value makes the import raise.
StartupRefuses(e) == ~e.apiKey

\* Module import: read the environment, refuse without the API key, load
\* equipe.json, then serve.
Boot ==
  /\ proc = "booting"
  /\ \E e \in EnvChoices :
       /\ OPENAI_API_KEY' = e.apiKey
       /\ ASSISTANT_ID' = e.assistantId
       /\ IF StartupRefuses(e)
          THEN proc' = "refused" /\ UNCHANGED equipe_data
          ELSE proc' = "serving" /\ equipe_data' = LoadEquipe(e.equipe)
  /\ UNCHANGED <<loop, req, cl_vars>>

\* A request arrives with a validated body.
Arrive(r) ==
  /\ proc = "serving"
  /\ req[r].pc = "absent"
  /\ \E kind \in {"ask", "atlas"}, t \in ThreadIdInputs :
       /\ kind = "atlas" => t = None
       /\ req' = [req EXCEPT ![r].kind = kind, ![r].thread_in = t,
                             ![r].pc = "ready"]
  /\ UNCHANGED <<proc, OPENAI_API_KEY, ASSISTANT_ID, equipe_data, loop,
                 cl_vars>>

\* ----------------------------------------------------------- event loop
\* What no request handler writes.
fixed == <<proc, OPENAI_API_KEY, ASSISTANT_ID, equipe_data, cl_vars>>

\* Where a task has handed the thread back to the event loop: before its
\* handler is called, at a yield of the generator (the response awaits the
\* send), and when it is over.  Everywhere else the handler or the generator
\* is inside synchronous code, an upstream call of the blocking client
\* included, and keeps the thread.
AtYield == {"gen_start", "yield_tid", "yield_chunk", "yield_tool", "yield_follow"}
Over == {"done", "closed", "failed", "cancelled"}
Released == {"absent", "ready"} \cup AtYield \cup Over
\* Inside a blocking upstream network call.
WaitingUpstream ==
  {"wait_chat", "wait_create", "wait_append", "wait_open", "wait_event",
   "wait_submit", "wait_follow"}

RECURSIVE Sum(_, _)
Sum(f, S) ==
  IF S = {} THEN 0
  ELSE LET x == CHOOSE y \in S : TRUE IN f[x] + Sum(f, S \ {x})

\* Upstream events delivered so far, all requests together.
Delivered == Sum([r \in Requests |-> req[r].consumed], Requests)

LoopAfter(r, pc) == IF pc \in Released THEN "idle" ELSE r

\* Request r's state becomes rec; the thread is kept or handed back.
Step(r, rec) ==
  /\ req' = [req EXCEPT ![r] = rec]
  /\ loop' = LoopAfter(r, rec.pc)
  /\ UNCHANGED fixed

SetLastRes(calls, res) == [calls EXCEPT ![Len(calls)].res = res]

\* ------------------------------------------------------ /consulta-atlas
\* The except clauses of consulta_atlas_local.
\* A mutant: no clause for RuntimeError.
ExceptStatusNoRuntimeClause(exc) == 500

ExceptStatus(exc) == IF exc = "RuntimeError" THEN 400 ELSE 500

\* gerar_resposta up to its upstream call: RuntimeError on an empty
\* dataset, else chat.completions.create is called.
AtlasStart(r) ==
  /\ loop = "idle"
  /\ req[r].pc = "ready" /\ req[r].kind = "atlas"
  /\ IF equipe_data = "empty"
     THEN Step(r, [req[r] EXCEPT !.status = ExceptStatus("RuntimeError"),
                                 !.pc = "done"])
     ELSE Step(r, [req[r] EXCEPT !.calls = Append(@, Call("chat", None, <<>>)),
                                 !.pc = "wait_chat"])

\* The completion call returns, or raises the client's APIError.
ChatReturn(r) ==
  /\ loop = r
  /\ req[r].pc = "wait_chat"
  /\ \/ Step(r, [req[r] EXCEPT !.calls = SetLastRes(@, "ok"),
                               !.status = 200,
                               !.body = "answer+local-json",
                               !.pc = "done"])
     \/ Step(r, [req[r] EXCEPT !.calls = SetLastRes(@, "fail"),
                               !.status = ExceptStatus("APIError"),
                               !.pc = "done"])

\* ------------------------------------------------------------------ /ask
\* A mutant: a thread is created whatever the request carries.
NeedsNewThreadAlways(t) == TRUE

\* `if thread_id is None`
NeedsNewThread(t) == t = None

\* The handler up to its first upstream call.
AskStart(r) ==
  /\ loop = "idle"
  /\ req[r].pc = "ready" /\ req[r].kind = "ask"
  /\ IF ~ASSISTANT_ID
     THEN Step(r, [req[r] EXCEPT !.status = 400, !.pc = "done"])
     ELSE IF NeedsNewThread(req[r].thread_in)
     THEN Step(r, [req[r] EXCEPT !.thread_id = req[r].thread_in,
                                 !.calls = Append(@, Call("create", None, <<>>)),
                                 !.pc = "wait_create"])
     ELSE Step(r, [req[r] EXCEPT !.thread_id = req[r].thread_in,
                                 !.calls = Append(@, Call("append", req[r].thread_in, <<>>)),
                                 !.pc = "wait_append"])

\* threads.create returns (then messages.create is called) or raises.
CreateReturn(r) ==
  /\ loop = r
  /\ req[r].pc = "wait_create"
  /\ \/ Step(r, [req[r] EXCEPT
                   !.thread_id = NewThreadId(r),
                   !.calls = Append(SetLastRes(@, "ok"),
                                    Call("append", NewThreadId(r), <<>>)),
                   !.pc = "wait_append"])
     \/ Step(r, [req[r] EXCEPT !.calls = SetLastRes(@, "fail"),
                               !.status = 500, !.pc = "done"])

\* A mutant: a failed append is swallowed and the stream is opened anyway.
AppendReturnSwallow(r) ==
  /\ loop = r
  /\ req[r].pc = "wait_append"
  /\ \E res \in {"ok", "fail"} :
       Step(r, [req[r] EXCEPT !.calls = SetLastRes(@, res),
                              !.status = 200, !.pc = "gen_start"])

\* messages.create returns (the StreamingResponse is returned) or raises.
AppendReturn(r) ==
  /\ loop = r
  /\ req[r].pc = "wait_append"
  /\ \/ Step(r, [req[r] EXCEPT !.calls = SetLastRes(@, "ok"),
                               !.status = 200, !.pc = "gen_start"])
     \/ Step(r, [req[r] EXCEPT !.calls = SetLastRes(@, "fail"),
                               !.status = 500, !.pc = "done"])

\* ------------------------------------------------------ stream_generator
\* A mutant: the event carries the id as the request sent it.
ThreadIdEventAsSent(r) == SseEvent("thread_id", req[r].thread_in)

\* The first yield: {"event": "thread_id", "data": thread_id}
ThreadIdEvent(r) == SseEvent("thread_id", req[r].thread_id)

\* The response starts iterating the generator, which runs to its first
\* yield.
GenStart(r) ==
  /\ loop = "idle"
  /\ req[r].pc = "gen_start" /\ ~req[r].disconnected
  /\ Step(r, [req[r] EXCEPT !.out = Append(@, ThreadIdEvent(r)),
                            !.pc = "yield_tid"])

\* The generator is resumed after a yield.  After the first one it enters
\* `with client.beta.threads.runs.stream(...)`.
Resume(r) ==
  /\ loop = "idle"
  /\ ~req[r].disconnected
  /\ \/ /\ req[r].pc = "yield_tid"
        /\ Step(r, [req[r] EXCEPT
                      !.calls = Append(@, Call("run", req[r].thread_id, <<>>)),
                      !.pc = "wait_open"])
     \/ /\ req[r].pc = "yield_chunk"
        /\ Step(r, [req[r] EXCEPT !.pc = "wait_event"])
     \/ /\ req[r].pc = "yield_tool"
        /\ Step(r, [req[r] EXCEPT !.pc = "tool_loop"])
     \/ /\ req[r].pc = "yield_follow"
        /\ Step(r, [req[r] EXCEPT !.pc = "wait_follow"])

\* The run stream opens, or the request raises inside the generator.
OpenReturn(r) ==
  /\ loop = r
  /\ req[r].pc = "wait_open"
  /\ \/ Step(r, [req[r] EXCEPT !.calls = SetLastRes(@, "ok"),
                               !.streamOpen = TRUE, !.pc = "wait_event"])
     \/ Step(r, [req[r] EXCEPT !.calls = SetLastRes(@, "fail"),
                               !.pc = "failed"])

\* The body of both delta branches: the text cleaned, yielded when not
\* empty.
Relay(rec, ev, yield_pc, next_pc) ==
  IF ev.content # <<>> /\ re_sub(ev.content[1]) # <<>>
  THEN [rec EXCEPT !.out = Append(@, SseEvent("text_chunk", re_sub(ev.content[1]))),
                   !.pc = yield_pc]
  ELSE [rec EXCEPT !.pc = next_pc]

\* `for event in stream`: the stream ends, raises, or delivers an event.
StreamEvent(r) ==
  /\ loop = r
  /\ req[r].pc = "wait_event"
  /\ \/ Step(r, [req[r] EXCEPT !.streamOpen = FALSE, !.pc = "closed"])
     \/ Step(r, [req[r] EXCEPT !.streamOpen = FALSE, !.pc = "failed"])
     \/ /\ Delivered < MaxEvents
        /\ \E ev \in UpstreamEvents :
             LET got == [req[r] EXCEPT !.event = ev, !.consumed = @ + 1]
             IN  IF ev.event = "thread.message.delta"
                 THEN Step(r, Relay(got, ev, "yield_chunk", "wait_event"))
                 ELSE IF ev.event = "thread.run.requires_action"
                 THEN Step(r, [got EXCEPT !.tool_calls = ev.tool_calls,
                                          !.tool_outputs = <<>>,
                                          !.idx = 1,
                                          !.pc = "tool_loop"])
                 ELSE Step(r, got)

\* A mutant: every tool is acknowledged.
HandlesToolAny(name) == TRUE

\* `if call.function.name == "navigateToSection"`
HandlesTool(name) == name = "navigateToSection"

\* One iteration of `for call in tool_calls`.
ToolLoop(r) ==
  /\ loop = r
  /\ req[r].pc = "tool_loop"
  /\ req[r].idx <= Len(req[r].tool_calls)
  /\ LET call == req[r].tool_calls[req[r].idx]
         args == json_loads(call.arguments)
     IN  IF ~HandlesTool(call.name)
         THEN Step(r, [req[r] EXCEPT !.idx = @ + 1])
         ELSE IF args = JsonError
         THEN Step(r, [req[r] EXCEPT !.streamOpen = FALSE, !.pc = "failed"])
         ELSE Step(r, [req[r] EXCEPT
                         !.out = Append(@, SseEvent("tool_call",
                                   [name |-> "navigateToSection",
                                    arguments |-> args])),
                         !.tool_outputs = Append(@,
                                   [tool_call_id |-> call.id,
                                    output |-> SuccessAck]),
                         !.idx = @ + 1,
                         !.pc = "yield_tool"])

\* After the loop: `if tool_outputs:` submit them and open the resumed
\* stream, else go on with the run stream.
ToolLoopEnd(r) ==
  /\ loop = r
  /\ req[r].pc = "tool_loop"
  /\ req[r].idx > Len(req[r].tool_calls)
  /\ IF req[r].tool_outputs # <<>>
     THEN Step(r, [req[r] EXCEPT
                     !.calls = Append(@, Call("submit", req[r].thread_id,
                                              req[r].tool_outputs)),
                     !.pc = "wait_submit"])
     ELSE Step(r, [req[r] EXCEPT !.pc = "wait_event"])

\* The resumed stream opens, or the submission raises.
SubmitReturn(r) ==
  /\ loop = r
  /\ req[r].pc = "wait_submit"
  /\ \/ Step(r, [req[r] EXCEPT !.calls = SetLastRes(@, "ok"),
                               !.followOpen = TRUE,
                               !.part = NoEvent,
                               !.pc = "wait_follow"])
     \/ Step(r, [req[r] EXCEPT !.calls = SetLastRes(@, "fail"),
                               !.streamOpen = FALSE, !.pc = "failed"])

\* `for part in follow_stream`: ends (back to the run stream), raises, or
\* delivers an event, of which only text deltas are looked at.
FollowEvent(r) ==
  /\ loop = r
  /\ req[r].pc = "wait_follow"
  /\ \/ Step(r, [req[r] EXCEPT !.followOpen = FALSE, !.pc = "wait_event"])
     \/ Step(r, [req[r] EXCEPT !.followOpen = FALSE, !.streamOpen = FALSE,
                               !.pc = "failed"])
     \/ /\ Delivered < MaxEvents
        /\ \E ev \in UpstreamEvents :
             LET got == [req[r] EXCEPT !.part = ev, !.consumed = @ + 1]
             IN  IF ev.event = "thread.message.delta"
                 THEN Step(r, Relay(got, ev, "yield_follow", "wait_follow"))
                 ELSE Step(r, got)

\* The caller goes away while the response is streaming.
Disconnect(r) ==
  /\ req[r].kind = "ask" /\ req[r].status = 200
  /\ req[r].pc \notin Over
  /\ ~req[r].disconnected
  /\ req' = [req EXCEPT ![r].disconnected = TRUE]
  /\ UNCHANGED <<loop, fixed>>

\* The response task is cancelled where it awaits, at a yield of the
\* generator; closing the generator leaves both `with` blocks.
Cancel(r) ==
  /\ loop = "idle"
  /\ req[r].pc \in AtYield
  /\ req[r].disconnected
  /\ Step(r, [req[r] EXCEPT !.streamOpen = FALSE, !.followOpen = FALSE,
                            !.pc = "cancelled"])

\* ------------------------------------------------------- specification
\* What request r's own task can do (arrival and disconnection are the
\* caller's).
Run(r) ==
  \/ AtlasStart(r) \/ ChatReturn(r)
  \/ AskStart(r) \/ CreateReturn(r) \/ AppendReturn(r)
  \/ GenStart(r) \/ Resume(r) \/ OpenReturn(r) \/ StreamEvent(r)
  \/ ToolLoop(r) \/ ToolLoopEnd(r) \/ SubmitReturn(r) \/ FollowEvent(r)
  \/ Cancel(r)

Next ==
  \/ Boot
  \/ \E r \in Requests : Arrive(r) \/ Disconnect(r) \/ Run(r)

Spec == Init /\ [][Next]_vars

\* ------------------------------------------- the cleaning specification
\* One text delta through lines 156-159 (and 186-189), for every text of
\* at most MaxLen characters.
InitClean ==
  /\ proc = "booting"
  /\ OPENAI_API_KEY = FALSE
  /\ ASSISTANT_ID = FALSE
  /\ equipe_data = "empty"
  /\ loop = "idle"
  /\ req = [r \in Requests |-> NoRequest]
  /\ text_chunk \in SeqsUpTo(MaxLen)
  /\ cleaned = <<>> /\ emitted = <<>> /\ cl_pc = "delta"

\* cleaned = re.sub(...)
CleanDelta ==
  /\ cl_pc = "delta"
  /\ cleaned' = re_sub(text_chunk)
  /\ cl_pc' = "cleaned"
  /\ UNCHANGED <<text_chunk, emitted, srv_vars>>

\* if cleaned: yield the text_chunk event
EmitChunk ==
  /\ cl_pc = "cleaned"
  /\ emitted' = IF cleaned # <<>>
                THEN Append(emitted, SseEvent("text_chunk", cleaned))
                ELSE emitted
  /\ cl_pc' = "done"
  /\ UNCHANGED <<text_chunk, cleaned, srv_vars>>

NextClean == CleanDelta \/ EmitChunk

SpecClean == InitClean /\ [][NextClean]_vars

\* ------------------------------------------------------------ properties
Asks == {r \in Requests : req[r].kind = "ask"}
Atlases == {r \in Requests : req[r].kind = "atlas"}
CallsOf(r, op) == {i \in 1..Len(req[r].calls) : req[r].calls[i].op = op}

\* C1: a /ask request that reaches upstream without a thread_id calls
\* threads.create exactly once, before any append; one that supplies a
\* thread_id never calls it and appends to the supplied thread.
C1_CreateOnlyWithoutThreadId ==
  \A r \in Asks :
    req[r].calls # <<>> =>
      IF req[r].thread_in = None
      THEN /\ CallsOf(r, "create") = {1}
           /\ \A j \in CallsOf(r, "append") :
                /\ j > 1
                /\ req[r].calls[1].res = "ok"
                /\ req[r].calls[j].thread = NewThreadId(r)
      ELSE /\ CallsOf(r, "create") = {}
           /\ req[r].calls[1].op = "append"
           /\ \A j \in CallsOf(r, "append") :
                req[r].calls[j].thread = req[r].thread_in

\* One request appended to a thread it had created, another to the thread
\* it was sent.
C1_Witness ==
  \E a, b \in Asks :
    /\ req[a].thread_in = None /\ CallsOf(a, "append") # {}
    /\ req[b].thread_in = "thread_old" /\ CallsOf(b, "append") # {}

\* C2: the first event of every stream is the thread_id event with the
\* handle the message was appended to; no other event is a thread_id
\* event; the run stream is not opened, and nothing of it consumed, before
\* that event is out.
C2_ThreadIdFirst ==
  \A r \in Asks :
    LET o == req[r].out
        c == req[r].calls
    IN  /\ o # <<>> =>
             /\ o[1].event = "thread_id"
             /\ \E j \in CallsOf(r, "append") :
                  c[j].res = "ok" /\ c[j].thread = o[1].data
             /\ \A k \in 2..Len(o) : o[k].event \in {"text_chunk", "tool_call"}
        /\ (req[r].consumed > 0 \/ CallsOf(r, "run") # {}) =>
             /\ o # <<>>
             /\ o[1].event = "thread_id"
             /\ \A i \in CallsOf(r, "run") : c[i].thread = o[1].data

\* A stream on a new thread failed after upstream output was consumed, the
\* thread_id event delivered.
C2_Witness ==
  \E r \in Asks :
    /\ req[r].pc = "failed" /\ req[r].consumed > 0
    /\ req[r].thread_in = None
    /\ req[r].out[1] = SseEvent("thread_id", NewThreadId(r))

HasMarker(s) ==
  \E i, j \in 1..Len(s) : i < j /\ s[i] = "L" /\ s[j] = "R"

\* C3: the text_chunk emitted for a delta holds no substring that starts
\* with the opening bracket and ends with the closing one.
C3_NoMarkerInChunk ==
  cl_pc = "done" =>
    \A k \in 1..Len(emitted) : ~HasMarker(emitted[k].data)

IsNavigate(call) == call.name = "navigateToSection"
Navigations(tool_calls) == SelectSeq(tool_calls, IsNavigate)
Acks(tool_calls) ==
  [i \in 1..Len(tool_calls) |->
     [tool_call_id |-> tool_calls[i].id, output |-> SuccessAck]]
IsToolEvent(e) == e.event = "tool_call"
ToolEvents(out) == SelectSeq(out, IsToolEvent)
LoopDone(r) ==
  req[r].pc = "tool_loop" /\ req[r].idx > Len(req[r].tool_calls)
\* The last n tool_call events of r are those of tool_calls, in order.
Announced(r, tool_calls) ==
  LET te == ToolEvents(req[r].out)
      n == Len(tool_calls)
  IN  /\ Len(te) >= n
      /\ \A i \in 1..n :
           te[Len(te) - n + i].data =
             [name |-> tool_calls[i].name,
              arguments |-> json_loads(tool_calls[i].arguments)]

C4_Inv ==
  \A r \in Asks :
    LET navs == Navigations(req[r].tool_calls)
        p == req[r].part
    IN  /\ LoopDone(r) =>
             /\ req[r].tool_outputs = Acks(navs)
             /\ Announced(r, navs)
        /\ req[r].pc \in {"wait_submit", "wait_follow", "yield_follow"} =>
             /\ navs # <<>>
             /\ Last(req[r].calls).op = "submit"
             /\ Last(req[r].calls).thread = req[r].thread_id
             /\ Last(req[r].calls).tool_outputs = Acks(navs)
        /\ ( /\ req[r].pc \in {"wait_follow", "yield_follow"}
             /\ p.event = "thread.message.delta"
             /\ p.content # <<>>
             /\ re_sub(p.content[1]) # <<>> ) =>
             Last(req[r].out) = SseEvent("text_chunk", re_sub(p.content[1]))

C4_NothingToSubmit ==
  \A r \in Requests :
    (LoopDone(r) /\ Navigations(req[r].tool_calls) = <<>>) =>
      req'[r].calls = req[r].calls

C5_AtlasErrors ==
  \A r \in Atlases :
    /\ req[r].pc = "done" => req[r].status \in {200, 400, 500}
    /\ equipe_data = "empty" =>
         /\ req[r].calls = <<>>
         /\ req[r].pc \in {"ready", "done"}
         /\ req[r].pc = "done" => req[r].status = 400
    /\ (req[r].calls # <<>> /\ req[r].calls[1].res = "fail") =>
         req[r].status = 500
    /\ req[r].status = 200 =>
         req[r].calls # <<>> /\ req[r].calls[1].res = "ok"

\* A /consulta-atlas request was answered 400 on an empty dataset.
C5_Witness ==
  \E r \in Atlases :
    equipe_data = "empty" /\ req[r].pc = "done" /\ req[r].status = 400

\* C6 as claimed: the service never serves while the assistant identifier
\* (or the API key) is unset.
C6_RefusesWithoutEither ==
  proc = "serving" => OPENAI_API_KEY /\ ASSISTANT_ID

\* C6 as amended: the process serves only with the API key set and refuses
\* to start without it; without the assistant identifier it serves, and
\* /ask answers 400 with no upstream call and no stream; both values stay
\* what start-up read.
C6_Inv ==
  /\ proc = "serving" => OPENAI_API_KEY
  /\ proc = "refused" => ~OPENAI_API_KEY
  /\ proc # "serving" => \A r \in Requests : req[r].pc = "absent"
  /\ \A r \in Asks :
       ~ASSISTANT_ID =>
         /\ req[r].calls = <<>> /\ req[r].out = <<>>
         /\ req[r].pc \in {"ready", "done"}
         /\ req[r].pc = "done" => req[r].status = 400

C6_ReadOnce ==
  proc # "booting" => UNCHANGED <<proc, OPENAI_API_KEY, ASSISTANT_ID>>

C6_StartupConfig == [](C6_Inv) /\ [][C6_ReadOnce]_vars

\* The service is up without an assistant identifier and has answered a
\* /ask request with 400.
C6_Witness ==
  /\ proc = "serving" /\ ~ASSISTANT_ID
  /\ \E r \in Asks : req[r].pc = "done" /\ req[r].status = 400

\* C7: while a request waits on an upstream call, another request that is
\* ready to start or to go on can take a step.
C7_WaitingDoesNotBlock ==
  \A a, b \in Requests :
    ( /\ a # b
      /\ req[a].pc \in WaitingUpstream
      /\ req[b].pc \in {"ready"} \cup AtYield ) =>
      ENABLED Run(b)

\* C8: once the caller has disconnected, no further upstream event is
\* consumed for the request.
C8_NoConsumptionAfterDisconnect ==
  [][\A r \in Requests :
       req[r].disconnected => req'[r].consumed = req[r].consumed]_vars

\* C9: an empty thread_id, the empty string as well as null, gets a new
\* thread, whose id the append uses.
C9_EmptyThreadIdCreates ==
  \A r \in Asks :
    (req[r].thread_in \in {None, ""} /\ req[r].calls # <<>>) =>
      /\ req[r].calls[1].op = "create"
      /\ \A j \in CallsOf(r, "append") :
           req[r].calls[j].thread = NewThreadId(r)

\* C10: a run is opened only right after the append to the same thread has
\* succeeded (and, without a thread_id, after the creation before it has);
\* a failed creation or append is the request's last upstream call, and no
\* stream follows.
C10_CreateAppendRun ==
  \A r \in Asks :
    LET c == req[r].calls
    IN  /\ \A i \in CallsOf(r, "run") :
             /\ i > 1
             /\ c[i - 1].op = "append" /\ c[i - 1].res = "ok"
             /\ c[i - 1].thread = c[i].thread
             /\ req[r].thread_in = None =>
                  i = 3 /\ c[1].op = "create" /\ c[1].res = "ok"
        /\ \A j \in CallsOf(r, "create") \cup CallsOf(r, "append") :
             /\ c[j].res = "fail" =>
                  /\ j = Len(c)
                  /\ req[r].out = <<>>
                  /\ req[r].pc = "done" /\ req[r].status = 500
             /\ c[j].res = "pending" => j = Len(c) /\ req[r].out = <<>>

\* One request's run was opened after creation and append; another's
\* append failed and the request ended there.
C10_Witness ==
  \E a, b \in Asks :
    /\ req[a].thread_in = None /\ CallsOf(a, "run") = {3}
    /\ req[b].calls # <<>>
    /\ Last(req[b].calls).op = "append" /\ Last(req[b].calls).res = "fail"
    /\ req[b].pc = "done"

=============================================================================
